---- MODULE Spec2Model ----
(***************************************************************************)
(* octocrabby: the paginated stream (pager_stream and the resource         *)
(* streams built on it), the block / follow response classifiers and the   *)
(* exclusion table of src/lib.rs.                                          *)
(*                                                                         *)
(* Strings are sequences of ASCII code points, so that substring search,   *)
(* equality and to_lowercase are computed and not assumed.                 *)
(***************************************************************************)
EXTENDS Integers, Sequences, FiniteSets, TLC

\* ---------------------------------------------------------------------
\* Bounds of the model
\* ---------------------------------------------------------------------
MaxPages == 4
MaxPageSize == 2
MaxExtraPolls == 2

VARIABLES
    pages,       \* the server's page chain: pages[k] = [items, next]
    st,          \* the stream's own state (Once, TryFlatten, TryUnfold)
    pending,     \* index of the page whose request is in flight, 0 = none
    delivered,   \* elements handed to the consumer so far, in order
    ended,       \* the consumer has received end-of-stream (None)
    fetches,     \* number of HTTP requests issued by the stream
    failed,      \* some request of the stream has failed
    received,    \* indices of the pages fetched successfully
    extraPolls,  \* polls made after end-of-stream
    outstanding  \* requests issued and not yet answered

pagerVars == <<pages, st, pending, delivered, ended, fetches, failed,
               received, extraPolls, outstanding>>

VARIABLES
    call,        \* which library function is called on the response
    response,    \* the octocrab::Result the HTTP call produced
    blockOut,    \* what block_user returned
    followOut    \* what check_follow returned

classVars == <<call, response, blockOut, followOut>>

VARIABLES
    rows,        \* the rows of the exclusions file, in file order
    ignore,      \* the --ignore-exclusions flag
    loaded,      \* the exclusion table has been built
    exclusions,  \* Exclusions.0: repository -> set of usernames
    asked,       \* is_excluded has been called
    qRepo,       \* the repository asked about
    qUser,       \* the username asked about
    answer       \* what is_excluded returned

exclVars == <<rows, ignore, loaded, exclusions, asked, qRepo, qUser,
              answer>>

VARIABLES
    usernames,    \* the usernames handed to the user-info functions
    chunkSize,    \* chunk_size of get_users_info_chunked
    cs,           \* state of the chunked stream (iter, and_then, flatten)
    qOutstanding, \* batched queries issued and not yet answered
    queries,      \* the batched queries issued so far, in order
    answers,      \* the profile lists of the queries that succeeded
    infoOut,      \* what get_users_info returned
    cDelivered,   \* elements the chunked stream handed to its consumer
    cEnded,       \* the chunked stream has returned end-of-stream
    cFailed,      \* number of batched queries that failed
    cExtraPolls   \* polls made after an error or end-of-stream

infoVars == <<usernames, chunkSize, cs, qOutstanding, queries, answers,
              infoOut, cDelivered, cEnded, cFailed, cExtraPolls>>

VARIABLES
    force,        \* the --force flag of block-users
    input,        \* the usernames read from stdin, in row order
    buPc,         \* where the block-users command is
    known,        \* the logins collected from the block list
    todo,         \* the usernames still to be blocked
    blockReqs,    \* the usernames a block request was sent for, in order
    lastStatus    \* what the last block_user call returned

buVars == <<force, input, buPc, known, todo, blockReqs, lastStatus>>

VARIABLES
    prs,          \* the pull requests the server holds for the repository
    prExcl,       \* the exclusion table of the run
    prPc,         \* where the list-pr-contributors command is
    prWait,       \* a request is sent and unanswered: the command is
                  \* suspended in the `.await` of the call of prPc
    prPage,       \* pages of the call of prPc received so far
    prGot,        \* pull requests on the pages received so far
    results,      \* (username, user_id, pr_count, first_pr_date) tuples
    authed,       \* outcome of the self-identity call
    reqLog,       \* the calls the command has sent a request for, in
                  \* order, one entry per call (prPage counts its pages)
    written       \* the rows written to the csv writer, in order

prVars == <<prs, prExcl, prPc, prWait, prPage, prGot, results, authed,
            reqLog, written>>

vars == <<pagerVars, classVars, exclVars, infoVars, buVars, prVars>>

exceptPager == <<classVars, exclVars, infoVars, buVars, prVars>>
exceptClass == <<pagerVars, exclVars, infoVars, buVars, prVars>>
exceptExcl == <<pagerVars, classVars, infoVars, buVars, prVars>>
exceptInfo == <<pagerVars, classVars, exclVars, buVars, prVars>>
exceptBU == <<classVars, exclVars, infoVars, prVars>>
exceptPR == <<pagerVars, classVars, exclVars, infoVars, buVars>>

\* Each component is checked on its own; the others stay where they are.
PagerIdle ==
    /\ pages = <<>> /\ st = <<>> /\ pending = 0 /\ delivered = <<>>
    /\ ended = FALSE /\ fetches = 0 /\ failed = FALSE /\ received = {}
    /\ extraPolls = 0 /\ outstanding = 0

ClassIdle ==
    /\ call = "" /\ response = <<>> /\ blockOut = <<>> /\ followOut = <<>>

ExclIdle ==
    /\ rows = <<>> /\ ignore = FALSE /\ loaded = FALSE /\ exclusions = <<>>
    /\ asked = FALSE /\ qRepo = <<>> /\ qUser = <<>> /\ answer = FALSE

InfoIdle ==
    /\ usernames = <<>> /\ chunkSize = 0 /\ cs = <<>> /\ qOutstanding = 0
    /\ queries = <<>> /\ answers = <<>> /\ infoOut = <<>>
    /\ cDelivered = <<>> /\ cEnded = FALSE /\ cFailed = 0
    /\ cExtraPolls = 0

BUIdle ==
    /\ force = FALSE /\ input = <<>> /\ buPc = "" /\ known = {}
    /\ todo = <<>> /\ blockReqs = <<>> /\ lastStatus = <<>>

PRIdle ==
    /\ prs = <<>> /\ prExcl = <<>> /\ prPc = "" /\ prWait = FALSE
    /\ prPage = 0 /\ prGot = 0 /\ results = <<>>
    /\ authed = "" /\ reqLog = <<>> /\ written = <<>>

\* ---------------------------------------------------------------------
\* The server: a finite chain of pages, only the last lacks `next`
\* ---------------------------------------------------------------------
RECURSIVE SumTo(_, _)
SumTo(sizes, k) == IF k = 0 THEN 0 ELSE sizes[k] + SumTo(sizes, k - 1)

\* Items are numbered 1, 2, 3, ... along the chain, so that loss,
\* duplication and reordering are all visible.
MkChain(sizes) ==
    [k \in 1..Len(sizes) |->
        [items |-> [j \in 1..sizes[k] |-> SumTo(sizes, k - 1) + j],
         next  |-> IF k < Len(sizes) THEN k + 1 ELSE 0]]

RECURSIVE AllItems(_, _)
AllItems(ps, k) ==
    IF k = 0 THEN <<>> ELSE AllItems(ps, k - 1) \o ps[k].items

\* octocrab::Result<R> as delivered by the stream
OkEl(v) == [ok |-> TRUE, v |-> v]
ErrEl == [ok |-> FALSE, v |-> 0]

OkSeq(items) == [i \in 1..Len(items) |-> OkEl(items[i])]

\* ---------------------------------------------------------------------
\* pager_stream (lib.rs 46-61) under a resource stream (lib.rs 224-231)
\* ---------------------------------------------------------------------
\* st.onceTaken  : stream::once has produced its element
\* st.hasPager   : the outer try_flatten holds a pager_stream
\* st.current    : try_unfold's state: k > 0 is Some(page k), 0 is None
\* st.unfoldDone : try_unfold has finished (returned None or an error)
\* st.inner      : items left in the page being flattened
\* st.innerLive  : the pager's try_flatten holds a page's item stream
StInit == [onceTaken |-> FALSE, hasPager |-> FALSE, current |-> 0,
           unfoldDone |-> FALSE, inner |-> <<>>, innerLive |-> FALSE]

\* page.take_items() of line 59
take_items_lossy(page) == IF page.items = <<>> THEN <<>> ELSE Tail(page.items)
take_items(page) == page.items

\* instance.get_page(&current_page.next): a request is made only for a
\* present next pointer; an absent one gives Ok(None) without a request.
get_page(page) == page.next

\* The state try_unfold is left in when get_page fails: the state was
\* taken for the future and is not put back.
unfold_retry(s) == s
unfold_err(s) == [s EXCEPT !.unfoldDone = TRUE, !.current = 0]

Out(kind, v) == [kind |-> kind, v |-> v]

\* `None => Ok(None)` of line 56: the unfold ends without an error.
unfold_none_err(s) ==
    [st |-> [s EXCEPT !.unfoldDone = TRUE], out |-> Out("err", 0)]
unfold_none(s) ==
    [st |-> [s EXCEPT !.unfoldDone = TRUE], out |-> Out("end", 0)]

\* One poll of the pager's try_flatten (line 60) over and_then (line 59)
\* over try_unfold (lines 50-58), run until it returns or suspends.
RECURSIVE PagerPoll(_)
PagerPoll(s) ==
    IF s.innerLive
    THEN IF s.inner # <<>>
         THEN [st |-> [s EXCEPT !.inner = Tail(s.inner)],
               out |-> Out("item", Head(s.inner))]
         ELSE PagerPoll([s EXCEPT !.innerLive = FALSE])
    ELSE IF s.unfoldDone
         THEN [st |-> s, out |-> Out("end", 0)]
         ELSE IF s.current = 0
              THEN unfold_none(s)
              ELSE IF get_page(pages[s.current]) # 0
                   THEN [st |-> s,
                         out |-> Out("fetch", get_page(pages[s.current]))]
                   ELSE PagerPoll([s EXCEPT
                            !.inner = take_items(pages[s.current]),
                            !.innerLive = TRUE,
                            !.current = 0])

\* One poll of the resource stream: once(initial request), and_then,
\* try_flatten (lines 228-230).
StreamPoll(s) ==
    IF s.hasPager
    THEN LET r == PagerPoll(s)
         IN IF r.out.kind = "end"
            THEN [st |-> [r.st EXCEPT !.hasPager = FALSE], out |-> r.out]
            ELSE r
    ELSE IF ~s.onceTaken
         THEN [st |-> [s EXCEPT !.onceTaken = TRUE], out |-> Out("fetch", 1)]
         ELSE [st |-> s, out |-> Out("end", 0)]

\* What a finished or suspended poll does to the observable state.
ApplyAfter(r, answered) ==
    /\ st' = r.st
    /\ pending' = IF r.out.kind = "fetch" THEN r.out.v ELSE 0
    /\ fetches' = IF r.out.kind = "fetch" THEN fetches + 1 ELSE fetches
    /\ delivered' = CASE r.out.kind = "item" ->
                            Append(delivered, OkEl(r.out.v))
                      [] r.out.kind = "err" -> Append(delivered, ErrEl)
                      [] OTHER -> delivered
    /\ ended' = (ended \/ r.out.kind = "end")
    /\ outstanding' = outstanding - answered
                         + (IF r.out.kind = "fetch" THEN 1 ELSE 0)

Apply(r) == ApplyAfter(r, 0)

PagerInit ==
    /\ \E n \in 1..MaxPages :
         \E sizes \in [1..n -> 0..MaxPageSize] : pages = MkChain(sizes)
    /\ st = StInit
    /\ pending = 0
    /\ delivered = <<>>
    /\ ended = FALSE
    /\ fetches = 0
    /\ failed = FALSE
    /\ received = {}
    /\ extraPolls = 0
    /\ outstanding = 0
    /\ ClassIdle /\ ExclIdle /\ InfoIdle
    /\ BUIdle /\ PRIdle

\* The `.await` of line 54 (and of the initial request, line 228): while
\* the request is unanswered the poll is suspended in that future.
Suspended_never == FALSE
Suspended == pending # 0

\* The consumer asks for the next element.
PollStep ==
    /\ ~Suspended
    /\ ended => extraPolls < MaxExtraPolls
    /\ extraPolls' = IF ended THEN extraPolls + 1 ELSE extraPolls
    /\ Apply(StreamPoll(st))
    /\ UNCHANGED <<pages, failed, received>>

Poll == PollStep /\ UNCHANGED exceptPager

\* The response to the outstanding request arrives and is a page.
RespondOkStep ==
    /\ pending # 0
    /\ received' = received \cup {pending}
    /\ IF pending = 1
       THEN ApplyAfter(StreamPoll([st EXCEPT !.hasPager = TRUE,
                                             !.current = 1]), 1)
       ELSE ApplyAfter(PagerPoll([st EXCEPT
                          !.inner = take_items(pages[st.current]),
                          !.innerLive = TRUE,
                          !.current = pending]), 1)
    /\ UNCHANGED <<pages, failed, extraPolls>>

RespondOk == RespondOkStep /\ UNCHANGED exceptPager

\* The outstanding request fails (transport or deserialization).
RespondErrStep ==
    /\ pending # 0
    /\ failed' = TRUE
    /\ ApplyAfter([st |-> IF pending = 1 THEN st ELSE unfold_err(st),
                    out |-> Out("err", 0)], 1)
    /\ UNCHANGED <<pages, received, extraPolls>>

RespondErr == RespondErrStep /\ UNCHANGED exceptPager

PagerNext == Poll \/ RespondOk \/ RespondErr

SpecPager == PagerInit /\ [][PagerNext]_vars

\* try_for_each (crabby.rs 64-69) asks for the next element until it
\* has received an error or the end of the stream, and no longer.
try_for_each_poll == ~failed /\ ~ended /\ Poll

\* The command keeps polling that way and every request is answered.
LivePager ==
    /\ SpecPager
    /\ WF_vars(try_for_each_poll)
    /\ WF_vars(RespondOk \/ RespondErr)

\* ---------------------------------------------------------------------
\* Properties of the paginated stream
\* ---------------------------------------------------------------------
NumPages == Len(pages)
ItemsUpTo(k) == OkSeq(AllItems(pages, k))
LastPageSeen == \E k \in received : pages[k].next = 0
IsPrefix(a, b) == Len(a) <= Len(b) /\ SubSeq(b, 1, Len(a)) = a

\* C1: a stream consumed to its end with every fetch successful has
\* delivered exactly the items of all pages, once each, in page order and
\* in server order within a page, with one fetch per page and none for
\* the absent next pointer.
C1_Completeness ==
    (ended /\ ~failed) =>
        /\ delivered = ItemsUpTo(NumPages)
        /\ fetches = NumPages
        /\ received = 1..NumPages

C1_Witness ==
    /\ ended /\ ~failed
    /\ NumPages >= 4
    /\ Len(pages[1].items) = 2 /\ Len(pages[2].items) = 2
    /\ Len(pages[3].items) = 2 /\ Len(pages[4].items) = 1
    /\ fetches = 4

\* C2: the page after page P is requested only after every item of P has
\* been delivered; after exactly one item of a two-page stream exactly
\* one fetch has been made.
C2_Laziness ==
    /\ \A k \in 1..(NumPages - 1) :
          fetches >= k + 1 => IsPrefix(ItemsUpTo(k), delivered)
    /\ (NumPages = 2 /\ Len(delivered) = 1 /\ delivered[1].ok)
          => fetches = 1

\* C3: once a page without next pointer has been fetched no further
\* fetch is issued, the stream ends without an error after that page's
\* items, and a consumer that keeps polling reaches end-of-stream.
C3_Termination ==
    /\ [][LastPageSeen => fetches' = fetches]_vars
    /\ []((ended /\ LastPageSeen) => delivered = ItemsUpTo(NumPages))
    /\ [][(ended /\ LastPageSeen) => delivered' = delivered]_vars
    /\ (LastPageSeen ~> ended)
    /\ <>(ended \/ failed)

C3_Witness ==
    /\ ended /\ LastPageSeen
    /\ NumPages >= 2
    /\ pages[NumPages].items # <<>>
    /\ extraPolls = MaxExtraPolls

\* C4: a failed fetch is delivered as the consumer's next element, and
\* after it the stream delivers nothing more, fetches nothing more (no
\* retry) and ends at the next poll.
C4_FailFast ==
    /\ [](failed =>
            /\ delivered # <<>>
            /\ delivered[Len(delivered)] = ErrEl
            /\ \A i \in 1..(Len(delivered) - 1) : delivered[i].ok
            /\ pending = 0)
    /\ [][failed => /\ delivered' = delivered
                    /\ fetches' = fetches
                    /\ ended']_vars

C4_Witness ==
    /\ failed /\ ended
    /\ fetches >= 3
    /\ Len(delivered) >= 2
    /\ extraPolls = MaxExtraPolls

\* C16: when the fetch of the page after page P fails, every item of P
\* and of the pages before it has been delivered before the error.
MaxReceived == IF received = {} THEN 0
               ELSE CHOOSE k \in received : \A j \in received : j <= k

C16_NoItemLost ==
    failed => IsPrefix(ItemsUpTo(MaxReceived), delivered)

\* ---------------------------------------------------------------------
\* Strings
\* ---------------------------------------------------------------------
\* str::contains: pat occurs in s as a contiguous substring
contains(s, pat) ==
    \E i \in 0..(Len(s) - Len(pat)) : SubSeq(s, i + 1, i + Len(pat)) = pat

\* str::to_lowercase on ASCII text
to_lowercase(s) ==
    [i \in 1..Len(s) |-> IF s[i] >= 65 /\ s[i] <= 90 THEN s[i] + 32 ELSE s[i]]

\* "Blocked user has already been blocked"
BLOCK_304_MESSAGE ==
    <<66, 108, 111, 99, 107, 101, 100, 32, 117, 115, 101, 114, 32, 104, 97,
      115, 32, 97, 108, 114, 101, 97, 100, 121, 32, 98, 101, 101, 110, 32,
      98, 108, 111, 99, 107, 101, 100>>

\* "Not Found"
BLOCK_404_MESSAGE ==
    <<78, 111, 116, 32, 70, 111, 117, 110, 100>>

\* StatusCode::NO_CONTENT
NO_CONTENT == 204

\* ---------------------------------------------------------------------
\* Responses of the HTTP client
\* ---------------------------------------------------------------------
\* "weird message"
MsgWeird ==
    <<119, 101, 105, 114, 100, 32, 109, 101, 115, 115, 97, 103, 101>>
\* "Not Foun"
MsgNotFoun ==
    <<78, 111, 116, 32, 70, 111, 117, 110>>
\* "blocked user has already been blocked"
MsgLower304 ==
    <<98, 108, 111, 99, 107, 101, 100, 32, 117, 115, 101, 114, 32, 104, 97,
      115, 32, 97, 108, 114, 101, 97, 100, 121, 32, 98, 101, 101, 110, 32,
      98, 108, 111, 99, 107, 101, 100>>
\* "not found"
MsgLower404 ==
    <<110, 111, 116, 32, 102, 111, 117, 110, 100>>
\* "Not Found: "
PreNotFound ==
    <<78, 111, 116, 32, 70, 111, 117, 110, 100, 58, 32>>
\* "User "
PreUser ==
    <<85, 115, 101, 114, 32>>
\* "!"
SufBang ==
    <<33>>

Prefixes == {<<>>, PreNotFound, PreUser}
Cores == {<<>>, BLOCK_304_MESSAGE, BLOCK_404_MESSAGE, MsgWeird, MsgNotFoun,
          MsgLower304, MsgLower404}
Suffixes == {<<>>, SufBang}
Messages == {p \o c \o x : p \in Prefixes, c \in Cores, x \in Suffixes}

\* Statuses a successful response can carry (the client turns every
\* non-2xx response into an error before the status is looked at).
SuccessStatuses == {200, 201, 202, 204, 205}

\* octocrab::Result<StatusCodeWrapper>:
\*   Ok(StatusCodeWrapper(status))
\*   Err(Error::GitHub { source: GitHubError { message, errors } })
\*   Err(any other variant), e.g. a transport or deserialization failure
OkResponse(status) ==
    [kind |-> "Ok", status |-> status, message |-> <<>>, errors |-> FALSE]
GitHubError(message, errors) ==
    [kind |-> "GitHub", status |-> 0, message |-> message, errors |-> errors]
OtherError(kind) ==
    [kind |-> kind, status |-> 0, message |-> <<>>, errors |-> FALSE]

Responses ==
    {OkResponse(c) : c \in SuccessStatuses}
      \cup {GitHubError(m, e) : m \in Messages, e \in BOOLEAN}
      \cup {OtherError("Http"), OtherError("Serde")}

\* ---------------------------------------------------------------------
\* BlockStatus::from_status_code_result (lib.rs 164-185)
\* ---------------------------------------------------------------------
BlockStatus(tag, code, message) ==
    [hard |-> FALSE, tag |-> tag, code |-> code, message |-> message,
     err |-> ""]
HardError(r) ==
    [hard |-> TRUE, tag |-> "", code |-> 0, message |-> r.message,
     err |-> r.kind]

\* The three-way test on the message of a structured error (174-180)
classify_message_404_first(message) ==
    IF contains(message, BLOCK_404_MESSAGE)
    THEN BlockStatus("UserNotFound", 0, <<>>)
    ELSE IF contains(message, BLOCK_304_MESSAGE)
         THEN BlockStatus("AlreadyBlocked", 0, <<>>)
         ELSE BlockStatus("OtherNonSuccess", 0, message)
classify_message_404_equals(message) ==
    IF contains(message, BLOCK_304_MESSAGE)
    THEN BlockStatus("AlreadyBlocked", 0, <<>>)
    ELSE IF message = BLOCK_404_MESSAGE
         THEN BlockStatus("UserNotFound", 0, <<>>)
         ELSE BlockStatus("OtherNonSuccess", 0, message)
classify_message(message) ==
    IF contains(message, BLOCK_304_MESSAGE)
    THEN BlockStatus("AlreadyBlocked", 0, <<>>)
    ELSE IF contains(message, BLOCK_404_MESSAGE)
         THEN BlockStatus("UserNotFound", 0, <<>>)
         ELSE BlockStatus("OtherNonSuccess", 0, message)

\* The two success arms (169-172)
classify_success_all_new(status_code) == BlockStatus("NewlyBlocked", 0, <<>>)
classify_success(status_code) ==
    IF status_code = NO_CONTENT
    THEN BlockStatus("NewlyBlocked", 0, <<>>)
    ELSE BlockStatus("OtherSuccess", status_code, <<>>)

\* The guard `if source.errors.is_none()` of lines 102 and 173
errors_is_none_ignored(r) == TRUE
errors_is_none(r) == ~r.errors

from_status_code_result(r) ==
    IF r.kind = "Ok"
    THEN classify_success(r.status)
    ELSE IF r.kind = "GitHub" /\ errors_is_none(r)
         THEN classify_message(r.message)
         ELSE HardError(r)

\* ---------------------------------------------------------------------
\* check_follow (lib.rs 93-105)
\* ---------------------------------------------------------------------
FollowValue(b) == [hard |-> FALSE, value |-> b, err |-> ""]
FollowError(r) == [hard |-> TRUE, value |-> FALSE, err |-> r.kind]

follow_ok_any(status_code) == FollowValue(TRUE)
follow_ok(status_code) == FollowValue(status_code = NO_CONTENT)

check_follow_result(r) ==
    IF r.kind = "Ok"
    THEN follow_ok(r.status)
    ELSE IF r.kind = "GitHub" /\ errors_is_none(r)
         THEN FollowValue(FALSE)
         ELSE FollowError(r)

\* ---------------------------------------------------------------------
\* The calls that classify a response
\* ---------------------------------------------------------------------
Calls == {"block_user_for_user", "block_user_for_organization",
          "check_follow"}

ClassInit ==
    /\ call \in Calls
    /\ response \in Responses
    /\ blockOut = <<>>
    /\ followOut = <<>>
    /\ PagerIdle /\ ExclIdle /\ InfoIdle
    /\ BUIdle /\ PRIdle

\* block_user (188-197) with no organization
block_user_for_user ==
    /\ call = "block_user_for_user"
    /\ blockOut = <<>>
    /\ blockOut' = from_status_code_result(response)
    /\ UNCHANGED <<call, response, followOut, exceptClass>>

\* block_user (188-197) with an organization
block_user_for_organization ==
    /\ call = "block_user_for_organization"
    /\ blockOut = <<>>
    /\ blockOut' = from_status_code_result(response)
    /\ UNCHANGED <<call, response, followOut, exceptClass>>

check_follow ==
    /\ call = "check_follow"
    /\ followOut = <<>>
    /\ followOut' = check_follow_result(response)
    /\ UNCHANGED <<call, response, blockOut, exceptClass>>

ClassNext ==
    block_user_for_user \/ block_user_for_organization \/ check_follow

SpecClassify == ClassInit /\ [][ClassNext]_vars

\* ---------------------------------------------------------------------
\* Properties of the classifiers
\* ---------------------------------------------------------------------
Blocked == blockOut # <<>>
Structured == response.kind = "GitHub" /\ ~response.errors
Has304 == contains(response.message, BLOCK_304_MESSAGE)
Has404 == contains(response.message, BLOCK_404_MESSAGE)

\* C5 as stated: for a structured error without field-level list the
\* outcome is UserNotFound exactly when the message equals "Not Found",
\* and every message that neither contains the already-blocked text nor
\* equals "Not Found" is OtherNonSuccess carrying the message unchanged.
C5_FallThroughAsStated ==
    (Blocked /\ Structured) =>
        /\ (blockOut.tag = "UserNotFound")
              <=> (response.message = BLOCK_404_MESSAGE)
        /\ (~Has304 /\ response.message # BLOCK_404_MESSAGE)
              => blockOut = BlockStatus("OtherNonSuccess", 0,
                                        response.message)

\* C5 as amended: for a structured error without field-level list the
\* outcome is UserNotFound exactly when the message contains "Not Found"
\* and does not contain the already-blocked text, and every message that
\* contains neither is OtherNonSuccess carrying the message unchanged.
C5_FallThrough ==
    (Blocked /\ Structured) =>
        /\ (blockOut.tag = "UserNotFound") <=> (Has404 /\ ~Has304)
        /\ (~Has304 /\ ~Has404)
              => blockOut = BlockStatus("OtherNonSuccess", 0,
                                        response.message)

C5_Witness ==
    /\ Blocked /\ Structured
    /\ response.message = PreUser \o BLOCK_404_MESSAGE \o SufBang
    /\ blockOut.tag = "UserNotFound"

\* C6: a block attempt ends in a hard error exactly when its result is a
\* structured error with a field-level error list or a failure that is
\* not a structured error; everything else gives a BlockStatus.
C6_HardBoundary ==
    Blocked =>
        /\ blockOut.hard
              <=> \/ (response.kind = "GitHub" /\ response.errors)
                  \/ response.kind \notin {"Ok", "GitHub"}
        /\ ~blockOut.hard
              => blockOut.tag \in {"NewlyBlocked", "AlreadyBlocked",
                                   "UserNotFound", "OtherSuccess",
                                   "OtherNonSuccess"}
        /\ blockOut.hard => blockOut.tag = ""

C6_Witness ==
    /\ Blocked
    /\ response.kind = "GitHub" /\ response.errors
    /\ response.message = BLOCK_404_MESSAGE
    /\ blockOut.hard

\* C7: a structured error without field-level list whose message contains
\* the already-blocked text is AlreadyBlocked, also when the message
\* contains "Not Found" as well.
C7_AlreadyBlockedFirst ==
    (Blocked /\ Structured /\ Has304) => blockOut.tag = "AlreadyBlocked"

C7_Witness ==
    /\ Blocked /\ Structured
    /\ Has304 /\ Has404
    /\ blockOut.tag = "AlreadyBlocked"

\* C8: a success with status 204 is NewlyBlocked, a success with any
\* other status s is OtherSuccess(s), and a success is never one of the
\* failure outcomes.
C8_SuccessRules ==
    (Blocked /\ response.kind = "Ok") =>
        /\ response.status = NO_CONTENT
              => blockOut = BlockStatus("NewlyBlocked", 0, <<>>)
        /\ response.status # NO_CONTENT
              => blockOut = BlockStatus("OtherSuccess", response.status,
                                        <<>>)
        /\ blockOut.tag \notin {"AlreadyBlocked", "UserNotFound",
                                 "OtherNonSuccess"}
        /\ ~blockOut.hard

C8_Witness ==
    /\ Blocked
    /\ response.kind = "Ok" /\ response.status = 201
    /\ blockOut.tag = "OtherSuccess" /\ blockOut.code = 201

\* C9: check_follow gives true for status 204, false (no error) for a
\* structured error without field-level list, a hard error for a
\* structured error with such a list and for any other failure, and true
\* in no other case.
C9_FollowCheck ==
    followOut # <<>> =>
        /\ (response.kind = "Ok" /\ response.status = NO_CONTENT)
              => followOut = FollowValue(TRUE)
        /\ Structured => followOut = FollowValue(FALSE)
        /\ (response.kind = "GitHub" /\ response.errors)
              => followOut.hard
        /\ response.kind \notin {"Ok", "GitHub"} => followOut.hard
        /\ (~followOut.hard /\ followOut.value)
              => (response.kind = "Ok" /\ response.status = NO_CONTENT)

C9_Witness ==
    /\ followOut # <<>>
    /\ response.kind = "Ok" /\ response.status = 200
    /\ followOut = FollowValue(FALSE)

\* ---------------------------------------------------------------------
\* Exclusions (lib.rs 273-310)
\* ---------------------------------------------------------------------
MaxRows == 3

\* "ghost"
GHOST ==
    <<103, 104, 111, 115, 116>>
\* "dependabot[bot]"
DEPENDABOT ==
    <<100, 101, 112, 101, 110, 100, 97, 98, 111, 116, 91, 98, 111, 116, 93>>
\* "org/repo"
RepoOrg ==
    <<111, 114, 103, 47, 114, 101, 112, 111>>
\* "other/repo"
RepoOther ==
    <<111, 116, 104, 101, 114, 47, 114, 101, 112, 111>>
\* "Alice"
NameAlice ==
    <<65, 108, 105, 99, 101>>
\* "bob"
NameBob ==
    <<98, 111, 98>>
\* "Ghost"
NameGhostCap ==
    <<71, 104, 111, 115, 116>>
\* "GHOST"
NameGhostUp ==
    <<71, 72, 79, 83, 84>>
\* "Dependabot[Bot]"
NameDependabotCap ==
    <<68, 101, 112, 101, 110, 100, 97, 98, 111, 116, 91, 66, 111, 116, 93>>
\* "ALICE"
NameAliceUp ==
    <<65, 76, 73, 67, 69>>
\* "alice"
NameAliceLow ==
    <<97, 108, 105, 99, 101>>
\* "carol"
NameCarol ==
    <<99, 97, 114, 111, 108>>

Repos == {RepoOrg, RepoOther}
RowNames == {NameAlice, NameBob}
Usernames == {GHOST, NameGhostCap, NameGhostUp, DEPENDABOT,
              NameDependabotCap, NameAlice, NameAliceUp, NameAliceLow,
              NameBob, NameCarol}

Tables == UNION {[1..n -> Repos \X RowNames] : n \in 0..MaxRows}

\* String::cmp: lexicographic order on code points
RECURSIVE StrLess(_, _)
StrLess(a, b) ==
    IF b = <<>> THEN FALSE
    ELSE IF a = <<>> THEN TRUE
    ELSE IF Head(a) # Head(b) THEN Head(a) < Head(b)
    ELSE StrLess(Tail(a), Tail(b))

\* pairs.sort_unstable_by(repo): every arrangement of the rows that is
\* ordered by repository (the order of equal keys is not fixed).
unsorted(pairs) == {pairs}
sort_unstable_by_repo(pairs) ==
    LET n == Len(pairs)
        perms == {f \in [1..n -> 1..n] : \A i, j \in 1..n : f[i] = f[j] => i = j}
        arranged == {[i \in 1..n |-> pairs[f[i]]] : f \in perms}
    IN {q \in arranged :
          \A i, j \in 1..n : i < j => ~StrLess(q[j][1], q[i][1])}

\* Itertools::group_by: runs of consecutive rows with the same repository
RECURSIVE group_by(_)
group_by(pairs) ==
    IF pairs = <<>> THEN <<>>
    ELSE LET h == Head(pairs)
             rest == group_by(Tail(pairs))
         IN IF rest # <<>> /\ Head(rest).key = h[1]
            THEN <<[key |-> h[1], names |-> <<h[2]>> \o Head(rest).names]>>
                   \o Tail(rest)
            ELSE <<[key |-> h[1], names |-> <<h[2]>>]>> \o rest

\* collect into HashMap<String, HashSet<String>>: usernames lowercased,
\* a later group with the same key replaces an earlier one.
collect(groups) ==
    LET keys == {groups[i].key : i \in 1..Len(groups)}
        last(k) == CHOOSE i \in 1..Len(groups) :
                      /\ groups[i].key = k
                      /\ \A j \in 1..Len(groups) :
                            groups[j].key = k => j <= i
    IN [k \in keys |->
          {to_lowercase(groups[last(k)].names[j]) :
              j \in 1..Len(groups[last(k)].names)}]

\* Exclusions::is_excluded (lines 301-309)
is_excluded(table, repo, username) ==
    \/ username = GHOST
    \/ username = DEPENDABOT
    \/ (repo \in DOMAIN table /\ to_lowercase(username) \in table[repo])

ExclInit ==
    /\ rows \in Tables
    /\ ignore \in BOOLEAN
    /\ loaded = FALSE
    /\ exclusions = <<>>
    /\ asked = FALSE
    /\ qRepo \in Repos
    /\ qUser \in Usernames
    /\ answer = FALSE
    /\ PagerIdle /\ ClassIdle /\ InfoIdle
    /\ BUIdle /\ PRIdle

\* Exclusions::default() (crabby.rs 95)
ExclusionsDefault ==
    /\ ignore /\ ~loaded
    /\ loaded' = TRUE
    /\ exclusions' = <<>>
    /\ UNCHANGED <<rows, ignore, asked, qRepo, qUser, answer, exceptExcl>>

\* Exclusions::load (lib.rs 277-299)
ExclusionsLoad ==
    /\ ~ignore /\ ~loaded
    /\ loaded' = TRUE
    /\ \E sorted \in sort_unstable_by_repo(rows) :
          exclusions' = collect(group_by(sorted))
    /\ UNCHANGED <<rows, ignore, asked, qRepo, qUser, answer, exceptExcl>>

IsExcluded ==
    /\ loaded /\ ~asked
    /\ asked' = TRUE
    /\ answer' = is_excluded(exclusions, qRepo, qUser)
    /\ UNCHANGED <<rows, ignore, loaded, exclusions, qRepo, qUser,
                   exceptExcl>>

ExclNext == ExclusionsDefault \/ ExclusionsLoad \/ IsExcluded

SpecExclusions == ExclInit /\ [][ExclNext]_vars

\* ---------------------------------------------------------------------
\* Properties of the exclusion table
\* ---------------------------------------------------------------------
\* C10: whatever the repository and the table, is_excluded is true for
\* every username that equals "ghost" or "dependabot[bot]" when case is
\* ignored.
C10_AlwaysExcluded ==
    (asked /\ to_lowercase(qUser) \in {GHOST, DEPENDABOT}) => answer

\* C11: after Exclusions::load of any rows (any order, duplicates, rows of
\* one repository not adjacent), for a username that is not one of the two
\* hard-coded identities is_excluded(repo, u) is true exactly when some
\* row has that repository and a username equal to u ignoring case; a
\* repository that is in no row gives false.
RowMatches(i) ==
    /\ rows[i][1] = qRepo
    /\ to_lowercase(rows[i][2]) = to_lowercase(qUser)

C11_TableLookup ==
    (asked /\ ~ignore /\ qUser \notin {GHOST, DEPENDABOT}) =>
        (answer <=> \E i \in 1..Len(rows) : RowMatches(i))

C11_Witness ==
    /\ asked /\ ~ignore /\ answer
    /\ Len(rows) >= 3
    /\ rows[1] = <<RepoOrg, NameAlice>>
    /\ rows[2] = <<RepoOther, NameBob>>
    /\ rows[3] = <<RepoOrg, NameBob>>
    /\ qRepo = RepoOrg /\ qUser = NameAliceUp

\* ---------------------------------------------------------------------
\* get_users_info (lib.rs 107-131)
\* ---------------------------------------------------------------------
MaxNames == 4
MaxChunk == 3

\* The accounts the server knows, by canonical login; a login is looked
\* up ignoring case, anything else resolves to null.
Registered == {NameAliceLow, NameBob}
InfoNames == {NameAlice, NameBob, NameCarol}
NameLists == UNION {[1..n -> InfoNames] : n \in 0..MaxNames}

\* Option<UserInfo> as a sequence of length at most one
UserInfo(login) == [login |-> login]
resolve(username) ==
    IF to_lowercase(username) \in Registered
    THEN <<UserInfo(to_lowercase(username))>>
    ELSE <<>>

\* The aliased sub-queries `u{i}: user(login: "{username}")` (116-121)
user_aliases_same(names) ==
    [i \in 1..Len(names) |-> [alias |-> 0, login |-> names[i]]]
user_aliases(names) ==
    [i \in 1..Len(names) |-> [alias |-> i - 1, login |-> names[i]]]

\* GraphQlUserResults.data: alias -> Option<UserInfo> (107-110)
graphql_data(query) ==
    LET keys == {query[i].alias : i \in 1..Len(query)}
        at(a) == CHOOSE i \in 1..Len(query) : query[i].alias = a
    IN [a \in keys |-> resolve(query[at(a)].login)]

RECURSIVE Flatten(_)
Flatten(ss) == IF ss = <<>> THEN <<>> ELSE Head(ss) \o Flatten(Tail(ss))

\* data.values().flatten().cloned().collect() (130): the map is walked
\* in an order that is not fixed.
values_flatten_dedup(data) ==
    {q \in UNION {[1..n -> {data[a][1] : a \in {b \in DOMAIN data :
                                                  data[b] # <<>>}}]
                    : n \in 0..Cardinality(DOMAIN data)} :
        /\ \A i, j \in 1..Len(q) : q[i] = q[j] => i = j
        /\ \A a \in DOMAIN data :
              data[a] # <<>> => \E i \in 1..Len(q) : q[i] = data[a][1]}
values_flatten(data) ==
    LET keys == DOMAIN data
        n == Cardinality(keys)
        orders == {f \in [1..n -> keys] :
                     \A i, j \in 1..n : f[i] = f[j] => i = j}
    IN {Flatten([i \in 1..n |-> data[f[i]]]) : f \in orders}

InfoResult(state, infos) == [state |-> state, infos |-> infos]

InfoInit ==
    /\ usernames \in NameLists
    /\ chunkSize = 0
    /\ cs = <<>>
    /\ qOutstanding = 0
    /\ queries = <<>>
    /\ answers = <<>>
    /\ infoOut = InfoResult("none", <<>>)
    /\ cDelivered = <<>>
    /\ cEnded = FALSE
    /\ cFailed = 0
    /\ cExtraPolls = 0
    /\ PagerIdle /\ ClassIdle /\ ExclIdle
    /\ BUIdle /\ PRIdle

\* get_users_info up to `instance.graphql(&query).await` (116-128)
get_users_info ==
    /\ infoOut.state = "none" /\ queries = <<>>
    /\ queries' = Append(queries, user_aliases(usernames))
    /\ qOutstanding' = qOutstanding + 1
    /\ UNCHANGED <<usernames, chunkSize, cs, answers, infoOut, cDelivered,
                   cEnded, cFailed, cExtraPolls, exceptInfo>>

\* The batched query succeeds (130)
GraphqlOk ==
    /\ qOutstanding > 0
    /\ qOutstanding' = qOutstanding - 1
    /\ \E infos \in values_flatten(graphql_data(queries[Len(queries)])) :
          /\ infoOut' = InfoResult("ok", infos)
          /\ answers' = Append(answers, infos)
    /\ UNCHANGED <<usernames, chunkSize, cs, queries, cDelivered, cEnded,
                   cFailed, cExtraPolls, exceptInfo>>

\* The batched query fails: `results?` (130)
GraphqlErr ==
    /\ qOutstanding > 0
    /\ qOutstanding' = qOutstanding - 1
    /\ infoOut' = InfoResult("err", <<>>)
    /\ cFailed' = cFailed + 1
    /\ UNCHANGED <<usernames, chunkSize, cs, queries, answers, cDelivered,
                   cEnded, cExtraPolls, exceptInfo>>

InfoNext == get_users_info \/ GraphqlOk \/ GraphqlErr

SpecUsersInfo == InfoInit /\ [][InfoNext]_vars

\* ---------------------------------------------------------------------
\* Properties of get_users_info
\* ---------------------------------------------------------------------
Unresolved == {i \in 1..Len(usernames) : resolve(usernames[i]) = <<>>}
ResolvingTo(login) ==
    {i \in 1..Len(usernames) : resolve(usernames[i]) = <<UserInfo(login)>>}
WithLogin(infos, login) ==
    {i \in 1..Len(infos) : infos[i].login = login}
LoginsOf(infos) == {infos[i].login : i \in 1..Len(infos)}

\* C12: get_users_info issues exactly one batched query for its n
\* usernames; when it succeeds and m usernames do not resolve it returns
\* exactly the n - m resolved profiles; an unresolved username causes no
\* error and no entry.
C12_ToleratesAbsence ==
    infoOut.state # "none" =>
        /\ Len(queries) = 1
        /\ [i \in 1..Len(queries[1]) |-> queries[1][i].login] = usernames
        /\ infoOut.state = "err" <=> cFailed > 0
        /\ infoOut.state = "ok" =>
              /\ Len(infoOut.infos)
                    = Len(usernames) - Cardinality(Unresolved)
              /\ \A k \in 1..Len(infoOut.infos) :
                    ResolvingTo(infoOut.infos[k].login) # {}

C12_Witness ==
    /\ infoOut.state = "ok"
    /\ usernames = <<NameAlice, NameCarol, NameBob>>
    /\ Len(infoOut.infos) = 2

\* C13 as stated: the returned list has at most one profile per distinct
\* login, whatever the input list.
C13_UniqueAsStated ==
    infoOut.state = "ok" =>
        \A i, j \in 1..Len(infoOut.infos) :
            infoOut.infos[i].login = infoOut.infos[j].login => i = j

\* C13 as amended: the returned list has one profile per input position
\* that resolves, so a login is returned as often as input usernames
\* resolve to it, and at most once when the input usernames are pairwise
\* different ignoring case.
C13_OnePerPosition ==
    infoOut.state = "ok" =>
        \A login \in Registered :
            Cardinality(WithLogin(infoOut.infos, login))
                = Cardinality(ResolvingTo(login))

C13_Witness ==
    /\ infoOut.state = "ok"
    /\ usernames = <<NameAlice, NameBob, NameAlice>>
    /\ Cardinality(WithLogin(infoOut.infos, NameAliceLow)) = 2
    /\ Cardinality(WithLogin(infoOut.infos, NameBob)) = 1

\* ---------------------------------------------------------------------
\* get_users_info_chunked (lib.rs 133-142)
\* ---------------------------------------------------------------------
Min(a, b) == IF a < b THEN a ELSE b

\* usernames.chunks(chunk_size): consecutive chunks, the last may be short
chunks_exact(names, c) ==
    [k \in 1..(Len(names) \div c) |-> SubSeq(names, (k - 1) * c + 1, k * c)]
chunks(names, c) ==
    [k \in 1..((Len(names) + c - 1) \div c) |->
        SubSeq(names, (k - 1) * c + 1, Min(k * c, Len(names)))]

\* cs.pos      : chunks already taken from stream::iter (138)
\* cs.awaiting : and_then holds the future of get_users_info (139)
\* cs.buf      : profiles left of the list being flattened (140-141)
\* cs.bufLive  : try_flatten holds such a list
CsStart == [pos |-> 0, awaiting |-> FALSE, buf |-> <<>>, bufLive |-> FALSE]

COkEl(info) == [ok |-> TRUE, v |-> info]
CErrEl == [ok |-> FALSE, v |-> UserInfo(<<>>)]
COkSeq(infos) == [i \in 1..Len(infos) |-> COkEl(infos[i])]

\* The state and_then is left in when get_users_info fails (139): the
\* future is dropped, the iterator of chunks is untouched.
and_then_err(s) == [s EXCEPT !.awaiting = FALSE]

\* One poll of try_flatten (141) over the two and_then (139, 140) over
\* stream::iter (138), run until it returns or suspends.
RECURSIVE ChunkedPoll(_)
ChunkedPoll(s) ==
    IF s.bufLive
    THEN IF s.buf # <<>>
         THEN [st |-> [s EXCEPT !.buf = Tail(s.buf)],
               out |-> Out("item", Head(s.buf))]
         ELSE ChunkedPoll([s EXCEPT !.bufLive = FALSE])
    ELSE IF s.pos < Len(chunks(usernames, chunkSize))
         THEN [st |-> [s EXCEPT !.pos = s.pos + 1, !.awaiting = TRUE],
               out |-> Out("query", chunks(usernames, chunkSize)[s.pos + 1])]
         ELSE [st |-> s, out |-> Out("end", UserInfo(<<>>))]

ApplyChunkedAfter(r, answered) ==
    /\ cs' = r.st
    /\ queries' = IF r.out.kind = "query"
                   THEN Append(queries, user_aliases(r.out.v))
                   ELSE queries
    /\ qOutstanding' = qOutstanding - answered
                          + (IF r.out.kind = "query" THEN 1 ELSE 0)
    /\ cDelivered' = CASE r.out.kind = "item" ->
                             Append(cDelivered, COkEl(r.out.v))
                       [] r.out.kind = "err" -> Append(cDelivered, CErrEl)
                       [] OTHER -> cDelivered
    /\ cEnded' = (cEnded \/ r.out.kind = "end")

ApplyChunked(r) == ApplyChunkedAfter(r, 0)

ChunkedInit ==
    /\ usernames \in NameLists
    /\ chunkSize \in 1..MaxChunk
    /\ cs = CsStart
    /\ qOutstanding = 0
    /\ queries = <<>>
    /\ answers = <<>>
    /\ infoOut = InfoResult("none", <<>>)
    /\ cDelivered = <<>>
    /\ cEnded = FALSE
    /\ cFailed = 0
    /\ cExtraPolls = 0
    /\ PagerIdle /\ ClassIdle /\ ExclIdle
    /\ BUIdle /\ PRIdle

\* The `.await` inside and_then (139): while the batched query is
\* unanswered the poll is suspended in that future.
ChunkSuspended_never == FALSE
ChunkSuspended == cs.awaiting

\* The consumer asks for the next element.
ChunkedPollStep ==
    /\ chunkSize >= 1
    /\ ~ChunkSuspended
    /\ cEnded => cExtraPolls < MaxExtraPolls
    /\ cExtraPolls' = IF cEnded THEN cExtraPolls + 1 ELSE cExtraPolls
    /\ ApplyChunked(ChunkedPoll(cs))
    /\ UNCHANGED <<usernames, chunkSize, answers, infoOut, cFailed>>

ChunkedPollNext == ChunkedPollStep /\ UNCHANGED exceptInfo

\* The batched query of the current chunk succeeds.
ChunkedOk ==
    /\ chunkSize >= 1
    /\ cs.awaiting
    /\ \E infos \in values_flatten(graphql_data(queries[Len(queries)])) :
          /\ answers' = Append(answers, infos)
          /\ ApplyChunkedAfter(ChunkedPoll([cs EXCEPT !.awaiting = FALSE,
                                                      !.buf = infos,
                                                      !.bufLive = TRUE]), 1)
    /\ UNCHANGED <<usernames, chunkSize, infoOut, cFailed, cExtraPolls,
                   exceptInfo>>

\* The batched query of the current chunk fails.
ChunkedErr ==
    /\ chunkSize >= 1
    /\ cs.awaiting
    /\ cFailed' = cFailed + 1
    /\ ApplyChunkedAfter([st |-> and_then_err(cs),
                           out |-> Out("err", UserInfo(<<>>))], 1)
    /\ UNCHANGED <<usernames, chunkSize, answers, infoOut, cExtraPolls,
                   exceptInfo>>

ChunkedNext == ChunkedPollNext \/ ChunkedOk \/ ChunkedErr

SpecChunked == ChunkedInit /\ [][ChunkedNext]_vars

\* ---------------------------------------------------------------------
\* Properties of get_users_info_chunked
\* ---------------------------------------------------------------------
QueryLogins(q) == [i \in 1..Len(q) |-> q[i].login]
AllQueryLogins == Flatten([k \in 1..Len(queries) |-> QueryLogins(queries[k])])

\* C14: consumed to the end with every query successful, the chunked
\* stream has issued ceil(n/c) batched queries of at most c usernames
\* that together cover every input position once, and has delivered the
\* profiles of the per-query results, none added, dropped or merged.
C14_Chunking ==
    (cEnded /\ cFailed = 0) =>
        /\ Len(queries) = (Len(usernames) + chunkSize - 1) \div chunkSize
        /\ \A k \in 1..Len(queries) : Len(queries[k]) <= chunkSize
        /\ AllQueryLogins = usernames
        /\ Len(answers) = Len(queries)
        /\ cDelivered = COkSeq(Flatten(answers))
        /\ \A login \in Registered :
              Cardinality({i \in 1..Len(cDelivered) :
                              cDelivered[i].v.login = login})
                = Cardinality(ResolvingTo(login))

C14_Witness ==
    /\ cEnded /\ cFailed = 0
    /\ usernames = <<NameAlice, NameBob, NameCarol, NameAlice>>
    /\ chunkSize = 3
    /\ Len(queries) = 2
    /\ Len(cDelivered) = 3

\* C17: once the batched query of a chunk has failed the chunked stream
\* issues no further query and delivers nothing more, however often it
\* is polled.
C17_ChunkedFailFast ==
    [][cFailed > 0 => /\ queries' = queries
                      /\ cDelivered' = cDelivered]_vars

\* ---------------------------------------------------------------------
\* A paginated stream or a chunked user-info stream
\* ---------------------------------------------------------------------
StreamsInit == PagerInit \/ ChunkedInit

PagerStreamNext == pages # <<>> /\ PagerNext

StreamsNext == PagerStreamNext \/ ChunkedNext

SpecStreams == StreamsInit /\ [][StreamsNext]_vars

\* C15: a paginated stream, and the chunked user-info stream, has at most
\* one request outstanding in every state, and issues a request only
\* when every earlier request of the stream has been answered.
C15_OneAtATime ==
    /\ [](outstanding \in {0, 1} /\ qOutstanding \in {0, 1})
    /\ [][fetches' # fetches =>
            (fetches' = fetches + 1 /\ outstanding' = 1)]_vars
    /\ [][queries' # queries =>
            (Len(queries') = Len(queries) + 1 /\ qOutstanding' = 1)]_vars

C15_Witness ==
    \/ (pages # <<>> /\ fetches >= 3 /\ outstanding = 1)
    \/ (chunkSize >= 1 /\ Len(queries) >= 3 /\ qOutstanding = 1)

\* ---------------------------------------------------------------------
\* crabby block-users (crabby.rs 22-62)
\* ---------------------------------------------------------------------
MaxInput == 3
MaxUser == 3
MaxBlockPages == 2

\* Logins are the item numbers of the block list's pages.
Inputs == UNION {[1..n -> 1..MaxUser] : n \in 0..MaxInput}

\* The responses a block request can get, one of each kind
BlockResponses ==
    {OkResponse(NO_CONTENT), OkResponse(201),
     GitHubError(BLOCK_304_MESSAGE, FALSE),
     GitHubError(BLOCK_404_MESSAGE, FALSE),
     GitHubError(MsgWeird, FALSE),
     GitHubError(BLOCK_404_MESSAGE, TRUE),
     OtherError("Http")}

NoStatus == BlockStatus("none", 0, <<>>)

\* usernames.retain(|username| !known.contains(username)) (41)
retain_known(names, knownSet) ==
    SelectSeq(names, LAMBDA u : u \in knownSet)
retain(names, knownSet) ==
    SelectSeq(names, LAMBDA u : u \notin knownSet)

\* The `?` applied to what block_user returned (50)
propagates_not_found(status) == status.hard \/ status.tag = "UserNotFound"
propagates(status) == status.hard

BUInit ==
    /\ \E n \in 1..MaxBlockPages :
         \E sizes \in [1..n -> 0..MaxPageSize] : pages = MkChain(sizes)
    /\ st = StInit
    /\ pending = 0
    /\ delivered = <<>>
    /\ ended = FALSE
    /\ fetches = 0
    /\ failed = FALSE
    /\ received = {}
    /\ extraPolls = 0
    /\ outstanding = 0
    /\ force \in BOOLEAN
    /\ input \in Inputs
    /\ buPc = "start"
    /\ known = {}
    /\ todo = <<>>
    /\ blockReqs = <<>>
    /\ lastStatus = NoStatus
    /\ ClassIdle /\ ExclIdle /\ InfoIdle /\ PRIdle

\* `if !force` (33)
BUStart ==
    /\ buPc = "start"
    /\ IF force
       THEN buPc' = "blocking" /\ todo' = input
       ELSE buPc' = "listing" /\ todo' = todo
    /\ UNCHANGED <<force, input, known, blockReqs, lastStatus, pagerVars,
                   exceptBU>>

\* try_collect (36) returns the set of logins when the stream ends.
BUCollected ==
    IF ended'
    THEN /\ known' = {delivered'[i].v : i \in 1..Len(delivered')}
         /\ todo' = retain(input, known')
         /\ buPc' = "blocking"
    ELSE UNCHANGED <<known, todo, buPc>>

\* try_collect polls get_blocks (34-37)
BUListPoll ==
    /\ buPc = "listing" /\ ~ended /\ ~failed
    /\ PollStep
    /\ BUCollected
    /\ UNCHANGED <<force, input, blockReqs, lastStatus, exceptBU>>

BUListOk ==
    /\ buPc = "listing"
    /\ RespondOkStep
    /\ BUCollected
    /\ UNCHANGED <<force, input, blockReqs, lastStatus, exceptBU>>

\* A failed page makes try_collect return the error: `.await?` (37)
BUListErr ==
    /\ buPc = "listing"
    /\ RespondErrStep
    /\ buPc' = "halted"
    /\ UNCHANGED <<force, input, known, todo, blockReqs, lastStatus,
                   exceptBU>>

\* `for username in usernames`: block_user sends its PUT (49-50)
BUBlockSend ==
    /\ buPc = "blocking" /\ todo # <<>>
    /\ blockReqs' = Append(blockReqs, Head(todo))
    /\ buPc' = "awaitBlock"
    /\ UNCHANGED <<force, input, known, todo, lastStatus, pagerVars,
                   exceptBU>>

\* The PUT is answered and the outcome is matched (50-60)
BUBlockAnswered ==
    /\ buPc = "awaitBlock"
    /\ \E resp \in BlockResponses :
          /\ lastStatus' = from_status_code_result(resp)
          /\ IF propagates(lastStatus')
             THEN buPc' = "halted" /\ todo' = todo
             ELSE buPc' = "blocking" /\ todo' = Tail(todo)
    /\ UNCHANGED <<force, input, known, blockReqs, pagerVars, exceptBU>>

\* The loop is over: Ok(()) (193)
BUDone ==
    /\ buPc = "blocking" /\ todo = <<>>
    /\ buPc' = "done"
    /\ UNCHANGED <<force, input, known, todo, blockReqs, lastStatus,
                   pagerVars, exceptBU>>

BUNext ==
    \/ BUStart \/ BUListPoll \/ BUListOk \/ BUListErr
    \/ BUBlockSend \/ BUBlockAnswered \/ BUDone

SpecBlockUsers == BUInit /\ [][BUNext]_vars

\* ---------------------------------------------------------------------
\* Properties of block-users
\* ---------------------------------------------------------------------
BlockList == {AllItems(pages, NumPages)[i] :
                 i \in 1..Len(AllItems(pages, NumPages))}
Expected == IF force THEN input
            ELSE SelectSeq(input, LAMBDA u : u \notin BlockList)

\* C18: without --force the whole block list is read before the first
\* block request, and the block requests are, in input order, those of
\* the input rows whose username is not in the list; with --force no
\* block-list request is made and every input row gets its request.
C18_RequestSet ==
    /\ IsPrefix(blockReqs, Expected)
    /\ buPc = "done" => blockReqs = Expected
    /\ (~force /\ blockReqs # <<>>) =>
          (ended /\ ~failed /\ received = 1..NumPages
             /\ fetches = NumPages /\ known = BlockList)
    /\ force => (fetches = 0 /\ delivered = <<>>)

C18_Witness ==
    /\ buPc = "done" /\ ~force
    /\ NumPages = 2 /\ BlockList = {1, 2}
    /\ input = <<3, 1, 3>>
    /\ blockReqs = <<3, 3>>

\* C19: an outcome that is a BlockStatus never stops the run, the next
\* username gets its attempt; a hard failure of the block-list read or
\* of a block attempt halts the command, after which no request of any
\* kind is issued.
C19_ErrorBoundary ==
    /\ [][(buPc = "awaitBlock" /\ ~lastStatus'.hard) =>
            (buPc' = "blocking" /\ todo' = Tail(todo))]_vars
    /\ [][(buPc = "awaitBlock" /\ lastStatus'.hard) =>
            buPc' = "halted"]_vars
    /\ [][failed' => buPc' = "halted"]_vars
    /\ [](buPc = "halted" => (failed \/ lastStatus.hard))
    /\ [][buPc = "halted" =>
            (blockReqs' = blockReqs /\ fetches' = fetches)]_vars
    /\ [](buPc = "done" => blockReqs = Expected)

C19_Witness ==
    /\ buPc = "halted"
    /\ force
    /\ Len(input) = 3
    /\ Len(blockReqs) = 2
    /\ lastStatus.hard

\* ---------------------------------------------------------------------
\* crabby list-pr-contributors (crabby.rs 87-180, 262-293)
\* ---------------------------------------------------------------------
MaxPrs == 3
MaxListPages == 2

PrLogins == {GHOST, NameAlice}
PrIds == {1, 2}
PrDates == {1, 2}
PullRequest(login, id, created_at) ==
    [login |-> login, id |-> id, created_at |-> created_at]
PrValues == {PullRequest(l, i, c) : l \in PrLogins, i \in PrIds,
                                     c \in PrDates}
PrLists == UNION {[1..n -> PrValues] : n \in 0..MaxPrs}

\* The tables a run can have: Exclusions::default() or a loaded file
PrTables == {<<>>, collect(group_by(<<<<RepoOrg, NameAlice>>>>))}

\* prs.sort_unstable_by(login) (105): every arrangement ordered by login
sort_unstable_by_login(list) ==
    LET n == Len(list)
        perms == {f \in [1..n -> 1..n] : \A i, j \in 1..n : f[i] = f[j] => i = j}
        arranged == {[i \in 1..n |-> list[f[i]]] : f \in perms}
    IN {q \in arranged :
          \A i, j \in 1..n : i < j => ~StrLess(q[j].login, q[i].login)}

\* group_by(|pr| (login, id)) (107-109): runs of consecutive pull
\* requests with the same login and id
RECURSIVE group_by_user(_)
group_by_user(list) ==
    IF list = <<>> THEN <<>>
    ELSE LET h == Head(list)
             rest == group_by_user(Tail(list))
         IN IF rest # <<>> /\ Head(rest)[1].login = h.login
                           /\ Head(rest)[1].id = h.id
            THEN <<<<h>> \o Head(rest)>> \o Tail(rest)
            ELSE <<<<h>>>> \o rest

MinDate(batch) ==
    CHOOSE d \in {batch[i].created_at : i \in 1..Len(batch)} :
        \A i \in 1..Len(batch) : d <= batch[i].created_at

\* The tuple built for one group (113-121)
contributor(batch) ==
    [username |-> batch[1].login, user_id |-> batch[1].id,
     pr_count |-> Len(batch), first_pr_date |-> MinDate(batch)]

make_results(sorted) ==
    LET groups == group_by_user(sorted)
    IN [k \in 1..Len(groups) |-> contributor(groups[k])]

\* One record of the output (143-172): the basic fields, and the
\* additional ones when the run is authenticated.
record(res, extended) ==
    [login |-> res.username, id |-> res.user_id, count |-> res.pr_count,
     extended |-> extended]

\* The loop over the results (139-176)
RECURSIVE write_records(_, _, _)
write_records(rs, table, extended) ==
    IF rs = <<>> THEN <<>>
    ELSE IF is_excluded(table, RepoOrg, Head(rs).username)
         THEN write_records(Tail(rs), table, extended)
         ELSE <<record(Head(rs), extended)>>
                \o write_records(Tail(rs), table, extended)

\* `if instance.current().user().await.is_ok()` (131-135)
after_probe_strict(ok) == IF ok THEN "followers" ELSE "aborted"
after_probe(ok) == IF ok THEN "followers" ELSE "write"

PRInit ==
    /\ prs \in PrLists
    /\ prExcl \in PrTables
    /\ prPc = "pulls"
    /\ prWait = FALSE
    /\ prPage = 0
    /\ prGot = 0
    /\ results = <<>>
    /\ authed = "unknown"
    /\ reqLog = <<>>
    /\ written = <<>>
    /\ PagerIdle /\ ClassIdle /\ ExclIdle /\ InfoIdle /\ BUIdle

\* pull_requests(...).try_collect().await (102-104): the initial request
\* of the stream is sent (lib.rs 69-77) and the command is suspended.
PRPullsSend ==
    /\ prPc = "pulls" /\ ~prWait /\ prPage = 0
    /\ reqLog' = Append(reqLog, "pull_requests")
    /\ prWait' = TRUE
    /\ UNCHANGED <<prs, prExcl, prPc, prPage, prGot, results, authed,
                   written, exceptPR>>

\* A page of pull requests with a next pointer arrives: the pager sends
\* the request for the next page (lib.rs 52-55) and is suspended again.
PRPullsPage ==
    /\ prPc = "pulls" /\ prWait /\ prPage + 1 < MaxListPages
    /\ \E k \in prGot..Len(prs) : prGot' = k
    /\ prPage' = prPage + 1
    /\ UNCHANGED <<prs, prExcl, prPc, prWait, results, authed, reqLog,
                   written, exceptPR>>

\* The page without next pointer arrives: try_collect returns all the
\* pull requests, which are sorted and grouped (102-122).
PRPullsOk ==
    /\ prPc = "pulls" /\ prWait
    /\ prGot' = Len(prs)
    /\ \E sorted \in sort_unstable_by_login(prs) :
          results' = make_results(sorted)
    /\ prPc' = "probe"
    /\ prWait' = FALSE
    /\ prPage' = 0
    /\ UNCHANGED <<prs, prExcl, authed, reqLog, written, exceptPR>>

\* A request for a page of pull requests fails, the first or a later
\* one: `.await?` returns the error (104).
PRPullsErr ==
    /\ prPc = "pulls" /\ prWait
    /\ prPc' = "aborted"
    /\ prWait' = FALSE
    /\ UNCHANGED <<prs, prExcl, prPage, prGot, results, authed, reqLog,
                   written, exceptPR>>

\* instance.current().user() sends its request (131)
PRProbeSend ==
    /\ prPc = "probe" /\ ~prWait
    /\ reqLog' = Append(reqLog, "current_user")
    /\ prWait' = TRUE
    /\ UNCHANGED <<prs, prExcl, prPc, prPage, prGot, results, authed,
                   written, exceptPR>>

\* The self-identity call is answered: `.await.is_ok()` (131-135)
PRProbe ==
    /\ prPc = "probe" /\ prWait
    /\ \E ok \in BOOLEAN :
          /\ authed' = IF ok THEN "yes" ELSE "no"
          /\ prPc' = after_probe(ok)
    /\ prWait' = FALSE
    /\ UNCHANGED <<prs, prExcl, prPage, prGot, results, reqLog, written,
                   exceptPR>>

\* get_followers(...).try_collect().await (267-270): the initial request
\* of the stream is sent (lib.rs 228).
PRFollowersSend ==
    /\ prPc = "followers" /\ ~prWait /\ prPage = 0
    /\ reqLog' = Append(reqLog, "followers")
    /\ prWait' = TRUE
    /\ UNCHANGED <<prs, prExcl, prPc, prPage, prGot, results, authed,
                   written, exceptPR>>

\* A page of followers with a next pointer arrives and the next page is
\* requested (lib.rs 52-55).
PRFollowersPage ==
    /\ prPc = "followers" /\ prWait /\ prPage + 1 < MaxListPages
    /\ prPage' = prPage + 1
    /\ UNCHANGED <<prs, prExcl, prPc, prWait, prGot, results, authed,
                   reqLog, written, exceptPR>>

\* The last page of followers arrives, or a request for a page fails:
\* `.await?` (270).
PRFollowers ==
    /\ prPc = "followers" /\ prWait
    /\ \E ok \in BOOLEAN :
          IF ok THEN prPc' = "following" /\ prPage' = 0
                ELSE prPc' = "aborted" /\ prPage' = prPage
    /\ prWait' = FALSE
    /\ UNCHANGED <<prs, prExcl, prGot, results, authed, reqLog, written,
                   exceptPR>>

\* get_following(...).try_collect().await (273-276): the initial request
\* of the stream is sent (lib.rs 237).
PRFollowingSend ==
    /\ prPc = "following" /\ ~prWait /\ prPage = 0
    /\ reqLog' = Append(reqLog, "following")
    /\ prWait' = TRUE
    /\ UNCHANGED <<prs, prExcl, prPc, prPage, prGot, results, authed,
                   written, exceptPR>>

\* A page of followed accounts with a next pointer arrives and the next
\* page is requested (lib.rs 52-55).
PRFollowingPage ==
    /\ prPc = "following" /\ prWait /\ prPage + 1 < MaxListPages
    /\ prPage' = prPage + 1
    /\ UNCHANGED <<prs, prExcl, prPc, prWait, prGot, results, authed,
                   reqLog, written, exceptPR>>

\* The last page of followed accounts arrives, or a request for a page
\* fails: `.await?` (276).
PRFollowing ==
    /\ prPc = "following" /\ prWait
    /\ \E ok \in BOOLEAN :
          IF ok THEN prPc' = "users_info" /\ prPage' = 0
                ELSE prPc' = "aborted" /\ prPage' = prPage
    /\ prWait' = FALSE
    /\ UNCHANGED <<prs, prExcl, prGot, results, authed, reqLog, written,
                   exceptPR>>

\* get_users_info(...) sends its one batched query (282, lib.rs 129)
PRUsersInfoSend ==
    /\ prPc = "users_info" /\ ~prWait
    /\ reqLog' = Append(reqLog, "users_info")
    /\ prWait' = TRUE
    /\ UNCHANGED <<prs, prExcl, prPc, prPage, prGot, results, authed,
                   written, exceptPR>>

\* The batched query is answered: `.await?` (283)
PRUsersInfo ==
    /\ prPc = "users_info" /\ prWait
    /\ \E ok \in BOOLEAN : prPc' = IF ok THEN "write" ELSE "aborted"
    /\ prWait' = FALSE
    /\ UNCHANGED <<prs, prExcl, prPage, prGot, results, authed, reqLog,
                   written, exceptPR>>

\* The writer is created and the records are written (137-176)
PRWrite ==
    /\ prPc = "write"
    /\ written' = write_records(results, prExcl, authed = "yes")
    /\ prPc' = "done"
    /\ UNCHANGED <<prs, prExcl, prWait, prPage, prGot, results, authed,
                   reqLog, exceptPR>>

PRNext ==
    \/ PRPullsSend \/ PRPullsPage \/ PRPullsOk \/ PRPullsErr
    \/ PRProbeSend \/ PRProbe
    \/ PRFollowersSend \/ PRFollowersPage \/ PRFollowers
    \/ PRFollowingSend \/ PRFollowingPage \/ PRFollowing
    \/ PRUsersInfoSend \/ PRUsersInfo \/ PRWrite

SpecPrContributors == PRInit /\ [][PRNext]_vars

\* ---------------------------------------------------------------------
\* Properties of list-pr-contributors
\* ---------------------------------------------------------------------
Enrichment == {"followers", "following", "users_info"}
Requested(name) == \E i \in 1..Len(reqLog) : reqLog[i] = name
NotExcluded ==
    SelectSeq(results, LAMBDA res : ~is_excluded(prExcl, RepoOrg, res.username))

\* C20: when the self-identity call fails the run is anonymous: no
\* followers, following or user-info request is made and the command
\* goes on to write one basic row per non-excluded contributor; when it
\* succeeds, followers, following and user info are requested in that
\* order and a failure of any of them aborts with no row written.
C20_AuthProbe ==
    /\ [](authed = "no" =>
            /\ \A name \in Enrichment : ~Requested(name)
            /\ prPc \in {"write", "done"})
    /\ []((authed = "no" /\ prPc = "done") =>
            written = [k \in 1..Len(NotExcluded) |->
                          record(NotExcluded[k], FALSE)])
    /\ [](authed = "yes" =>
            IsPrefix(reqLog, <<"pull_requests", "current_user",
                               "followers", "following", "users_info">>))
    /\ []((authed = "yes" /\ prPc \in {"write", "done"}) =>
            \A name \in Enrichment : Requested(name))
    /\ [](prPc = "aborted" => written = <<>>)
    /\ [](written # <<>> => prPc = "done")

C20_Witness ==
    /\ authed = "no" /\ prPc = "done"
    /\ Len(results) = 2
    /\ Len(written) = 1
    /\ written[1].login = NameAlice /\ written[1].count = 2
    /\ reqLog = <<"pull_requests", "current_user">>

\* C21: the results hold at most one entry per author login, whose count
\* is the number of pull requests with that login and whose date is the
\* earliest of them, so the counts add up to the number of pull requests;
\* also when pull requests of one login carry different ids.
PrsOf(login) == {i \in 1..Len(prs) : prs[i].login = login}
ResultsOf(login) == {k \in 1..Len(results) : results[k].username = login}

RECURSIVE SumCounts(_)
SumCounts(rs) ==
    IF rs = <<>> THEN 0 ELSE Head(rs).pr_count + SumCounts(Tail(rs))

C21_Grouping ==
    prPc = "probe" =>
        /\ SumCounts(results) = Len(prs)
        /\ \A login \in PrLogins :
              /\ Cardinality(ResultsOf(login)) <= 1
              /\ \A k \in ResultsOf(login) :
                    /\ results[k].pr_count = Cardinality(PrsOf(login))
                    /\ \A i \in PrsOf(login) :
                          results[k].first_pr_date <= prs[i].created_at
                    /\ \E i \in PrsOf(login) :
                          results[k].first_pr_date = prs[i].created_at

====
